---- MODULE Spec2Model ----
(***************************************************************************)
(* A model of the mock energy meter: ConfigManager (config_manager.py),    *)
(* DataSource (data_source.py), MqttManager (mqtt_manager.py) and the      *)
(* wiring of app.py.  Every Python thread is a process with a program      *)
(* counter; one action is one step between two points at which another     *)
(* thread can observe or change shared state.                              *)
(*                                                                         *)
(* Python values are modelled by their text: "2.0", "True", "None".        *)
(* A dict is a function whose domain is its key set; dict objects live in  *)
(* `heap` and are referred to by their index, so that two names for one    *)
(* object (aliasing) are visible in the model.                             *)
(***************************************************************************)
EXTENDS Naturals, Sequences, FiniteSets, TLC

\* ------------------------------------------------------------- bounds
\* broker clients ever created by startClient()
MaxClients == 2
\* dict objects ever allocated (load, all, json.load)
MaxObjs == 3
\* readings produced by each source
MaxReadings == 2

\* ------------------------------------------------------------ threads
Sources == {"Load", "Generator"}
Reqs == {"req1", "req2", "req3"}
Main == "main"
\* the network loop thread of the broker client
Net == "net"
Threads == Sources \cup Reqs \cup {Main, Net}

VARIABLES
  pc, stack, ret, hnd, upd, arg, val, ref, li, called,
  heap, cfgRef, file, disk, saveOutcome, cfgLock, listeners, handed,
  mqttCfg, mqtt_client, mqttLock, cl, nextClient,
  running, lower, upper, thread_started, spawned, produced, slept, callback,
  peLock, events, announced

thrVars == <<pc, stack, ret, hnd, upd, arg, val, ref, li, called>>
cfgVars == <<heap, cfgRef, file, disk, saveOutcome, cfgLock, listeners, handed>>
mqVars == <<mqttCfg, mqtt_client, mqttLock, cl, nextClient>>
srcVars == <<running, lower, upper, thread_started, spawned, produced, slept,
            callback>>
appVars == <<peLock, events, announced>>
vars == <<thrVars, cfgVars, mqVars, srcVars, appVars>>

\* ------------------------------------------------------ Python values
\* bool(v) of a config value
Truthy(v) == v \notin {"None", "False", "", "0"}

\* dict.get(k, default)
Get(d, k, default) == IF k \in DOMAIN d THEN d[k] ELSE default

\* a merge that replaces the dict by the updates instead of merging them in
DictUpdate_Replace(d, u) == u

\* dict.update(u)
DictUpdate(d, u) ==
  [k \in DOMAIN d \cup DOMAIN u |-> IF k \in DOMAIN u THEN u[k] ELSE d[k]]

EmptyDict == [k \in {} |-> "None"]

DEFAULT_CONFIG ==
  [interval_consumed_lower |-> "2.0", interval_consumed_upper |-> "5.0",
   interval_generated_lower |-> "2.0", interval_generated_upper |-> "5.0",
   mqtt_publish_enabled |-> "False", mqtt_host |-> "None",
   mqtt_port |-> "1883", mqtt_cert_filename |-> "None"]

\* ----------------------------------------------------- control flow
Goto(t, l) == pc' = [pc EXCEPT ![t] = l]

Call(t, entry, back) ==
  /\ pc' = [pc EXCEPT ![t] = entry]
  /\ stack' = [stack EXCEPT ![t] = <<back>> \o @]

Return(t) ==
  /\ pc' = [pc EXCEPT ![t] = Head(stack[t])]
  /\ stack' = [stack EXCEPT ![t] = Tail(@)]

\* what the last call of a thread returned (or raised)
Ret(op, v) == [op |-> op, val |-> v]
NoArg == "-"
\* no value loaded and not yet stored
NoVal == "-"
NoRet == Ret("-", "-")

\* threading.RLock: owner and recursion count
NoOwner == "none"
FreeLock == [owner |-> NoOwner, count |-> 0]
CanAcquire(lock, t) == lock.owner \in {NoOwner, t}
Acquired(lock, t) == [owner |-> t, count |-> lock.count + 1]
Released(lock) ==
  IF lock.count = 1 THEN FreeLock ELSE [lock EXCEPT !.count = @ - 1]

\* ------------------------------------------------- the broker client
\* One paho client: sock (the broker connection is open), loop (its network
\* loop thread runs), reports (is_connected() answers True).
NoClient == 0
DeadClient == [sock |-> FALSE, loop |-> FALSE, reports |-> FALSE]
Clients == 1..MaxClients
Live(c) == cl[c].sock \/ cl[c].loop
Outcomes == {"ok", "raise"}

\* =========================================================== MqttManager

\* stopClient, `with self._lock:` and `if self.mqtt_client:`
stopClient_enter(t) ==
  /\ pc[t] = "stopClient"
  /\ CanAcquire(mqttLock, t)
  /\ mqttLock' = Acquired(mqttLock, t)
  /\ Goto(t, IF mqtt_client # NoClient THEN "st_loop_stop" ELSE "st_finally")
  /\ UNCHANGED <<stack, ret, hnd, upd, arg, val, ref, li, called, cfgVars, mqttCfg, mqtt_client,
                 cl, nextClient, srcVars, appVars>>

\* self.mqtt_client.loop_stop(): an exception skips disconnect()
stopClient_loop_stop(t) ==
  /\ pc[t] = "st_loop_stop"
  /\ \E o \in Outcomes :
       IF o = "ok"
       THEN /\ cl' = [cl EXCEPT ![mqtt_client].loop = FALSE]
            /\ Goto(t, "st_disconnect")
       ELSE /\ cl' = cl
            /\ Goto(t, "st_finally")
  /\ UNCHANGED <<stack, ret, hnd, upd, arg, val, ref, li, called, cfgVars, mqttCfg, mqtt_client,
                 mqttLock, nextClient, srcVars, appVars>>

\* self.mqtt_client.disconnect()
stopClient_disconnect(t) ==
  /\ pc[t] = "st_disconnect"
  /\ \E o \in Outcomes :
       IF o = "ok"
       THEN cl' = [cl EXCEPT ![mqtt_client].sock = FALSE,
                             ![mqtt_client].reports = FALSE]
       ELSE cl' = cl
  /\ Goto(t, "st_finally")
  /\ UNCHANGED <<stack, ret, hnd, upd, arg, val, ref, li, called, cfgVars, mqttCfg, mqtt_client,
                 mqttLock, nextClient, srcVars, appVars>>

\* a stopClient() without the finally clause: the handle is left as it was
stopClient_finally_Keep(t) ==
  /\ pc[t] = "st_finally"
  /\ mqttLock' = Released(mqttLock)
  /\ Return(t)
  /\ UNCHANGED <<ret, hnd, upd, arg, val, ref, li, called, cfgVars, mqttCfg, mqtt_client, cl,
                 nextClient, srcVars, appVars>>

\* finally: self.mqtt_client = None; the lock is released and the call returns
stopClient_finally(t) ==
  /\ pc[t] = "st_finally"
  /\ mqtt_client' = NoClient
  /\ mqttLock' = Released(mqttLock)
  /\ Return(t)
  /\ UNCHANGED <<ret, hnd, upd, arg, val, ref, li, called, cfgVars, mqttCfg, cl, nextClient,
                 srcVars, appVars>>

stopClient(t) ==
  \/ stopClient_enter(t)
  \/ stopClient_loop_stop(t)
  \/ stopClient_disconnect(t)
  \/ stopClient_finally(t)

\* startClient, `with self._lock:` then self.stopClient()
startClient_enter(t) ==
  /\ pc[t] = "startClient"
  /\ nextClient <= MaxClients
  /\ CanAcquire(mqttLock, t)
  /\ mqttLock' = Acquired(mqttLock, t)
  /\ Call(t, "stopClient", "sc_host")
  /\ UNCHANGED <<ret, hnd, upd, arg, val, ref, li, called, cfgVars, mqttCfg, mqtt_client, cl,
                 nextClient, srcVars, appVars>>

\* host = self.config.get("mqtt_host"); `if not host: return None`;
\* otherwise a fresh client is built and connect(host, int(port), 60) is
\* called: int(None) raises, and connect itself may raise
startClient_connect(t) ==
  /\ pc[t] = "sc_host"
  /\ LET cfg == heap[mqttCfg]
         host == Get(cfg, "mqtt_host", "None")
         port == Get(cfg, "mqtt_port", "8883")
     IN IF ~Truthy(host)
        THEN /\ mqttLock' = Released(mqttLock)
             /\ ret' = [ret EXCEPT ![t] = Ret("startClient", "None")]
             /\ Return(t)
             /\ UNCHANGED <<hnd, val, cl, mqtt_client, nextClient>>
        ELSE \E o \in Outcomes :
               IF o = "ok" /\ port # "None"
               THEN /\ cl' = [cl EXCEPT ![nextClient].sock = TRUE]
                    /\ hnd' = [hnd EXCEPT ![t] = nextClient]
                    /\ nextClient' = nextClient + 1
                    /\ Goto(t, "sc_loop_start")
                    /\ UNCHANGED <<stack, ret, mqttLock, mqtt_client>>
               ELSE /\ mqtt_client' = NoClient
                    /\ mqttLock' = Released(mqttLock)
                    /\ ret' = [ret EXCEPT ![t] = Ret("startClient", "None")]
                    /\ Return(t)
                    /\ UNCHANGED <<hnd, val, cl, nextClient>>
  /\ UNCHANGED <<upd, arg, val, ref, li, called, cfgVars, mqttCfg, srcVars, appVars>>

\* client.loop_start(): an exception leaves the connected client unreferenced
\* (`except: self.mqtt_client = None`)
startClient_loop_start(t) ==
  /\ pc[t] = "sc_loop_start"
  /\ \E o \in Outcomes :
       IF o = "ok"
       THEN /\ cl' = [cl EXCEPT ![hnd[t]].loop = TRUE]
            /\ Goto(t, "sc_assign")
            /\ UNCHANGED <<stack, ret, hnd, val, mqttLock, mqtt_client>>
       ELSE /\ mqtt_client' = NoClient
            /\ mqttLock' = Released(mqttLock)
            /\ ret' = [ret EXCEPT ![t] = Ret("startClient", "None")]
            /\ hnd' = [hnd EXCEPT ![t] = NoClient]
            /\ Return(t)
            /\ UNCHANGED cl
  /\ UNCHANGED <<upd, arg, val, ref, li, called, cfgVars, mqttCfg, nextClient, srcVars, appVars>>

\* self.mqtt_client = client; return self.mqtt_client
startClient_assign(t) ==
  /\ pc[t] = "sc_assign"
  /\ mqtt_client' = hnd[t]
  /\ mqttLock' = Released(mqttLock)
  /\ ret' = [ret EXCEPT ![t] = Ret("startClient", "client")]
  /\ hnd' = [hnd EXCEPT ![t] = NoClient]
  /\ Return(t)
  /\ UNCHANGED <<upd, arg, val, ref, li, called, cfgVars, mqttCfg, cl, nextClient, srcVars, appVars>>

startClient(t) ==
  \/ startClient_enter(t)
  \/ startClient_connect(t)
  \/ startClient_loop_start(t)
  \/ startClient_assign(t)

\* The broker acknowledges the connection (CONNACK, handled on the client's
\* network loop): is_connected() turns True.
NetConnAck(c) ==
  /\ cl[c].sock /\ cl[c].loop /\ ~cl[c].reports
  /\ cl' = [cl EXCEPT ![c].reports = TRUE]
  /\ UNCHANGED <<thrVars, cfgVars, mqttCfg, mqtt_client, mqttLock, nextClient,
                 srcVars, appVars>>

\* The connection drops; the client keeps its socket and its loop, which
\* reconnects on its own.
NetDrop(c) ==
  /\ cl[c].reports
  /\ cl' = [cl EXCEPT ![c].reports = FALSE]
  /\ UNCHANGED <<thrVars, cfgVars, mqttCfg, mqtt_client, mqttLock, nextClient,
                 srcVars, appVars>>

\* safePublish takes no lock.  First statement:
\* `if not self.config.get("mqtt_publish_enabled", False): return`
safePublish_enabled(t) ==
  /\ pc[t] = "safePublish"
  /\ IF Truthy(Get(heap[mqttCfg], "mqtt_publish_enabled", "False"))
     THEN /\ Goto(t, "sp_client")
          /\ UNCHANGED ret
     ELSE /\ Goto(t, "sp_done")
          /\ ret' = [ret EXCEPT ![t] = Ret("safePublish", "skipped")]
  /\ UNCHANGED <<stack, hnd, upd, arg, val, ref, li, called, cfgVars, mqVars, srcVars, appVars>>

\* `if not self.mqtt_client ...`: the first read of the handle
safePublish_client(t) ==
  /\ pc[t] = "sp_client"
  /\ hnd' = [hnd EXCEPT ![t] = mqtt_client]
  /\ IF mqtt_client # NoClient
     THEN /\ Goto(t, "sp_connected")
          /\ UNCHANGED ret
     ELSE /\ Goto(t, "sp_done")
          /\ ret' = [ret EXCEPT ![t] = Ret("safePublish", "skipped")]
  /\ UNCHANGED <<stack, upd, arg, val, ref, li, called, cfgVars, mqVars, srcVars, appVars>>

\* the second check without the is_connected() call: any handle passes
safePublish_connected_NoCheck(t) ==
  /\ pc[t] = "sp_connected"
  /\ Goto(t, "sp_publish")
  /\ UNCHANGED <<stack, ret, hnd, upd, arg, val, ref, li, called, cfgVars, mqVars, srcVars, appVars>>

\* `... or not self.mqtt_client.is_connected()`: the handle is read again,
\* outside the try; on None the AttributeError leaves safePublish
safePublish_connected(t) ==
  /\ pc[t] = "sp_connected"
  /\ IF mqtt_client = NoClient
     THEN /\ Goto(t, "sp_done")
          /\ ret' = [ret EXCEPT ![t] = Ret("safePublish", "raised")]
     ELSE IF cl[mqtt_client].reports
     THEN /\ Goto(t, "sp_publish")
          /\ UNCHANGED ret
     ELSE /\ Goto(t, "sp_done")
          /\ ret' = [ret EXCEPT ![t] = Ret("safePublish", "skipped")]
  /\ UNCHANGED <<stack, hnd, upd, arg, val, ref, li, called, cfgVars, mqVars, srcVars, appVars>>

\* the fan-out log entry of source thread t's current reading
Event(t, kind) == [src |-> t, n |-> produced[t], kind |-> kind]

Logged(t, kind) ==
  IF t \in Sources THEN Append(events, Event(t, kind)) ELSE events

\* `self.mqtt_client.publish(PUB_TOPIC, mqtt_payload)` inside the try: the
\* handle is read a third time; on None the AttributeError is caught and logged
safePublish_publish(t) ==
  /\ pc[t] = "sp_publish"
  /\ IF mqtt_client = NoClient
     THEN /\ ret' = [ret EXCEPT ![t] = Ret("safePublish", "error")]
          /\ UNCHANGED <<hnd, val, events>>
     ELSE /\ ret' = [ret EXCEPT ![t] = Ret("safePublish", "published")]
          /\ hnd' = [hnd EXCEPT ![t] = mqtt_client]
          /\ events' = Logged(t, "publish")
  /\ Goto(t, "sp_done")
  /\ UNCHANGED <<stack, upd, arg, val, ref, li, called, cfgVars, mqVars, srcVars, peLock, announced>>

\* safePublish returns (or its exception propagates) to the caller
safePublish_return(t) ==
  /\ pc[t] = "sp_done"
  /\ hnd' = [hnd EXCEPT ![t] = NoClient]
  /\ Return(t)
  /\ UNCHANGED <<ret, upd, arg, val, ref, li, called, cfgVars, mqVars, srcVars, appVars>>

safePublish(t) ==
  \/ safePublish_enabled(t)
  \/ safePublish_client(t)
  \/ safePublish_connected(t)
  \/ safePublish_publish(t)
  \/ safePublish_return(t)

\* isConnected: `return self.mqtt_client and self.mqtt_client.is_connected()`
\* takes no lock; the left operand is the first read of the handle
isConnected_first(t) ==
  /\ pc[t] = "isConnected"
  /\ IF mqtt_client = NoClient
     THEN /\ Goto(t, "ic_done")
          /\ ret' = [ret EXCEPT ![t] = Ret("isConnected", "None")]
     ELSE /\ Goto(t, "ic_second")
          /\ UNCHANGED ret
  /\ UNCHANGED <<stack, hnd, upd, arg, val, ref, li, called, cfgVars, mqVars, srcVars, appVars>>

\* the right operand reads the handle again and calls is_connected() on it
isConnected_second(t) ==
  /\ pc[t] = "ic_second"
  /\ ret' = [ret EXCEPT ![t] = Ret("isConnected",
       IF mqtt_client = NoClient THEN "AttributeError"
       ELSE IF cl[mqtt_client].reports THEN "True" ELSE "False")]
  /\ Goto(t, "ic_done")
  /\ UNCHANGED <<stack, hnd, upd, arg, val, ref, li, called, cfgVars, mqVars, srcVars, appVars>>

isConnected_return(t) ==
  /\ pc[t] = "ic_done"
  /\ Return(t)
  /\ UNCHANGED <<ret, hnd, upd, arg, val, ref, li, called, cfgVars, mqVars, srcVars, appVars>>

isConnected(t) ==
  \/ isConnected_first(t)
  \/ isConnected_second(t)
  \/ isConnected_return(t)

\* ========================================================= ConfigManager

\* The backing file: its state and, when it parses, the dict it holds.
FileOf(d) == [st |-> "ok", d |-> d]
MissingFile == [st |-> "missing", d |-> EmptyDict]
CorruptFile == [st |-> "corrupt", d |-> EmptyDict]

\* save(): open(config_file, "w") then json.dump; both inside try/except, so
\* the caller never learns the outcome.  open() may fail (file untouched), or
\* the dump may fail after open() truncated the file.
SaveOutcomes == {"ok", "open_fails", "dump_fails"}

\* what a write can do on this machine: `disk` says whether its storage can
\* fail at all
DiskOutcomes == IF disk = "reliable" THEN {"ok"} ELSE SaveOutcomes

save(f, d, o) ==
  CASE o = "ok" -> FileOf(d)
    [] o = "open_fails" -> f
    [] o = "dump_fails" -> CorruptFile

\* update(): `with self._lock: self._config.update(updates)`
update_merge(t) ==
  /\ pc[t] = "update"
  /\ CanAcquire(cfgLock, t)
  /\ cfgLock' = Acquired(cfgLock, t)
  /\ heap' = [heap EXCEPT ![cfgRef] = DictUpdate(@, upd[t])]
  /\ Goto(t, "up_save")
  /\ UNCHANGED <<stack, ret, hnd, upd, arg, val, ref, li, called, cfgRef, file, disk, saveOutcome,
                 listeners, handed, mqVars, srcVars, appVars>>

\* update(): self.save(), still under the lock, which is released after it
update_save(t) ==
  /\ pc[t] = "up_save"
  /\ \E o \in DiskOutcomes :
       /\ file' = save(file, heap[cfgRef], o)
       /\ saveOutcome' = o
  /\ cfgLock' = Released(cfgLock)
  /\ li' = [li EXCEPT ![t] = 1]
  /\ Goto(t, "up_notify")
  /\ UNCHANGED <<stack, ret, hnd, upd, arg, val, ref, called, heap, cfgRef, disk, listeners,
                 handed, mqVars, srcVars, appVars>>

\* update(): `for listener in self._listeners: listener(self._config)`, outside
\* the lock; the argument is the internal dict itself.  `called` lists the
\* listeners this call of update() has invoked so far.
update_notify(t) ==
  /\ pc[t] = "up_notify"
  /\ IF li[t] <= Len(listeners)
     THEN /\ ref' = [ref EXCEPT ![t] = cfgRef]
          /\ handed' = handed \cup {cfgRef}
          /\ li' = [li EXCEPT ![t] = @ + 1]
          /\ called' = [called EXCEPT ![t] = Append(@, listeners[li[t]])]
          /\ Call(t, listeners[li[t]], "up_notify")
          /\ UNCHANGED ret
     ELSE /\ li' = [li EXCEPT ![t] = 0]
          /\ called' = [called EXCEPT ![t] = <<>>]
          /\ ref' = [ref EXCEPT ![t] = 0]
          /\ ret' = [ret EXCEPT ![t] = Ret("update", "None")]
          /\ Return(t)
          /\ UNCHANGED handed
  /\ UNCHANGED <<hnd, upd, arg, val, heap, cfgRef, file, disk, saveOutcome, cfgLock,
                 listeners, mqVars, srcVars, appVars>>

\* the listeners other than apply_config
PlainListeners == {"listener", "listener2"}

\* a listener whose exception update() has no except clause for: the
\* exception ends the call of update()
listener_Propagate(t) ==
  /\ pc[t] \in PlainListeners
  /\ \E o \in Outcomes :
       IF o = "ok"
       THEN /\ ret' = [ret EXCEPT ![t] = Ret("listener", o)]
            /\ Return(t)
            /\ UNCHANGED <<ref, li, called>>
       ELSE /\ ret' = [ret EXCEPT ![t] = Ret("update", "raised")]
            /\ pc' = [pc EXCEPT ![t] = Head(Tail(stack[t]))]
            /\ stack' = [stack EXCEPT ![t] = Tail(Tail(@))]
            /\ li' = [li EXCEPT ![t] = 0]
            /\ called' = [called EXCEPT ![t] = <<>>]
            /\ ref' = [ref EXCEPT ![t] = 0]
  /\ UNCHANGED <<hnd, upd, arg, val, cfgVars, mqVars, srcVars, appVars>>

\* A registered listener other than apply_config runs: it returns, or it
\* raises and `except Exception as e:` of update()'s loop logs the error.
\* Either way the loop goes on to the next listener.
listener(t) ==
  /\ pc[t] \in PlainListeners
  /\ \E o \in Outcomes : ret' = [ret EXCEPT ![t] = Ret("listener", o)]
  /\ Return(t)
  /\ UNCHANGED <<hnd, upd, arg, val, ref, li, called, cfgVars, mqVars, srcVars, appVars>>

update(t) ==
  \/ update_merge(t)
  \/ update_save(t)
  \/ update_notify(t)

\* get(key, default), under the lock
get(t, k, default) ==
  /\ pc[t] = "get"
  /\ CanAcquire(cfgLock, t)
  /\ ret' = [ret EXCEPT ![t] = Ret("get", Get(heap[cfgRef], k, default))]
  /\ Return(t)
  /\ UNCHANGED <<hnd, upd, arg, val, ref, li, called, cfgVars, mqVars, srcVars, appVars>>

\* all(): `return self._config.copy()`, a new dict object, under the lock
all(t) ==
  /\ pc[t] = "all"
  /\ CanAcquire(cfgLock, t)
  /\ Len(heap) < MaxObjs
  /\ heap' = Append(heap, heap[cfgRef])
  /\ ref' = [ref EXCEPT ![t] = Len(heap) + 1]
  /\ handed' = handed \cup {Len(heap) + 1}
  /\ Return(t)
  /\ UNCHANGED <<ret, hnd, upd, arg, val, li, called, cfgRef, file, disk, saveOutcome, cfgLock,
                 listeners, mqVars, srcVars, appVars>>

\* load(), under the lock: a file that exists and parses is bound as the new
\* internal dict and the lock is released.  A missing or unreadable file
\* gives `self._config = self.DEFAULT_CONFIG.copy()`, a new dict object that
\* lock-free readers see from now on; save() follows, still under the lock.
load_body(t) ==
  /\ pc[t] = "load"
  /\ CanAcquire(cfgLock, t)
  /\ Len(heap) < MaxObjs
  /\ cfgRef' = Len(heap) + 1
  /\ IF file.st = "ok"
     THEN /\ heap' = Append(heap, file.d)
          /\ Goto(t, "ld_return")
          /\ UNCHANGED cfgLock
     ELSE /\ heap' = Append(heap, DEFAULT_CONFIG)
          /\ cfgLock' = Acquired(cfgLock, t)
          /\ Goto(t, "ld_save")
  /\ UNCHANGED <<stack, ret, hnd, upd, arg, val, ref, li, called, file, disk, saveOutcome,
                 listeners, handed, mqVars, srcVars, appVars>>

\* load(): self.save() writes the internal dict as it reads now, with any
\* outcome of the write; the lock is released after it
load_save(t) ==
  /\ pc[t] = "ld_save"
  /\ \E o \in DiskOutcomes :
       /\ file' = save(file, heap[cfgRef], o)
       /\ saveOutcome' = o
  /\ cfgLock' = Released(cfgLock)
  /\ Goto(t, "ld_return")
  /\ UNCHANGED <<stack, ret, hnd, upd, arg, val, ref, li, called, heap, cfgRef, disk,
                 listeners, handed, mqVars, srcVars, appVars>>

\* load(): `return self._config`, after the lock is released: the internal dict
load_return(t) ==
  /\ pc[t] = "ld_return"
  /\ ref' = [ref EXCEPT ![t] = cfgRef]
  /\ handed' = handed \cup {cfgRef}
  /\ Return(t)
  /\ UNCHANGED <<ret, hnd, upd, arg, val, li, called, heap, cfgRef, file, disk, saveOutcome, cfgLock,
                 listeners, mqVars, srcVars, appVars>>

load(t) ==
  \/ load_body(t)
  \/ load_save(t)
  \/ load_return(t)

\* A caller changes a dict it was handed (d[k] = v on the returned object).
callerSets(o, k, v) ==
  /\ o \in handed
  /\ Get(heap[o], k, "absent") # v
  /\ heap' = [heap EXCEPT ![o] = DictUpdate(@, [x \in {k} |-> v])]
  /\ UNCHANGED <<thrVars, cfgRef, file, disk, saveOutcome, cfgLock, listeners,
                 handed, mqVars, srcVars, appVars>>

\* on_change(callback): `if callable(callback): self._listeners.append(callback)`
MaxListeners == 2

on_change(t, f) ==
  /\ pc[t] = "idle"
  /\ Len(listeners) < MaxListeners
  /\ listeners' = Append(listeners, f)
  /\ UNCHANGED <<thrVars, heap, cfgRef, file, disk, saveOutcome, cfgLock, handed,
                 mqVars, srcVars, appVars>>

\* ================================================================ app.py

\* apply_config(new_cfg, consumer, generator, mqtt_mgr): the four interval
\* assignments, in order.  new_cfg[key] raises KeyError on a missing key, which
\* the except clause of apply_config logs; the function then returns.
AcSteps ==
  [apply_config |-> [src |-> "Load", bound |-> "lower",
                     key |-> "interval_consumed_lower", next |-> "ac_cu"],
   ac_cu |-> [src |-> "Load", bound |-> "upper",
              key |-> "interval_consumed_upper", next |-> "ac_gl"],
   ac_gl |-> [src |-> "Generator", bound |-> "lower",
              key |-> "interval_generated_lower", next |-> "ac_gu"],
   ac_gu |-> [src |-> "Generator", bound |-> "upper",
              key |-> "interval_generated_upper", next |-> "ac_stop"]]

\* apply_config, one of the four assignments
\* `source.interval_..._bound = new_cfg[key]`, its right-hand side: the value
\* is read from the dict the listener was handed.  A missing key raises
\* KeyError, which the except clause of apply_config logs: the call returns.
apply_config_load(t) ==
  /\ pc[t] \in DOMAIN AcSteps
  /\ val[t] = NoVal
  /\ LET st == AcSteps[pc[t]]
         cfg == heap[ref[t]]
     IN IF st.key \in DOMAIN cfg
        THEN /\ val' = [val EXCEPT ![t] = cfg[st.key]]
             /\ UNCHANGED <<pc, stack>>
        ELSE /\ Return(t)
             /\ UNCHANGED val
  /\ UNCHANGED <<ret, hnd, upd, arg, ref, li, called, cfgVars, mqVars, srcVars, appVars>>

\* the same assignment, its store: the attribute of the source takes the
\* value read
apply_config_store(t) ==
  /\ pc[t] \in DOMAIN AcSteps
  /\ val[t] # NoVal
  /\ LET st == AcSteps[pc[t]]
     IN /\ lower' = IF st.bound = "lower"
                    THEN [lower EXCEPT ![st.src] = val[t]] ELSE lower
        /\ upper' = IF st.bound = "upper"
                    THEN [upper EXCEPT ![st.src] = val[t]] ELSE upper
        /\ Goto(t, st.next)
  /\ val' = [val EXCEPT ![t] = NoVal]
  /\ UNCHANGED <<stack, ret, hnd, upd, arg, ref, li, called, cfgVars, mqVars, running,
                 thread_started, spawned, produced, slept, callback, appVars>>

apply_config_interval(t) ==
  \/ apply_config_load(t)
  \/ apply_config_store(t)

\* apply_config: mqtt_mgr.stopClient()
apply_config_stop(t) ==
  /\ pc[t] = "ac_stop"
  /\ Call(t, "stopClient", "ac_assign")
  /\ UNCHANGED <<ret, hnd, upd, arg, val, ref, li, called, cfgVars, mqVars, srcVars, appVars>>

\* apply_config: `mqtt_mgr.config = new_cfg` (outside the manager's lock), then
\* mqtt_mgr.startClient(), whose return ends apply_config
apply_config_assign(t) ==
  /\ pc[t] = "ac_assign"
  /\ mqttCfg' = ref[t]
  /\ Goto(t, "startClient")
  /\ UNCHANGED <<stack, ret, hnd, upd, arg, val, ref, li, called, cfgVars, mqtt_client, mqttLock,
                 cl, nextClient, srcVars, appVars>>

apply_config(t) ==
  \/ apply_config_interval(t)
  \/ apply_config_stop(t)
  \/ apply_config_assign(t)

\* ------------------------------------------- calls made by request threads
\* a request-handling thread calls a method that takes no argument
Invoke(t, entry) ==
  /\ pc[t] = "idle"
  /\ ret' = [ret EXCEPT ![t] = NoRet]
  /\ Call(t, entry, "idle")
  /\ UNCHANGED <<hnd, upd, arg, val, ref, li, called, cfgVars, mqVars, srcVars, appVars>>

\* config_manager.update(u)
update_call(t, u) ==
  /\ pc[t] = "idle"
  /\ upd' = [upd EXCEPT ![t] = u]
  /\ ret' = [ret EXCEPT ![t] = NoRet]
  /\ Call(t, "update", "idle")
  /\ UNCHANGED <<hnd, arg, val, ref, li, called, cfgVars, mqVars, srcVars, appVars>>

\* ======================================================== data_source.py

\* DataSource.start(), called with arg[t] the source: the unlocked test of
\* _thread_started
start_check(t) ==
  /\ pc[t] = "start"
  /\ IF thread_started[arg[t]]
     THEN Return(t)
     ELSE Goto(t, "st_spawn") /\ UNCHANGED stack
  /\ UNCHANGED <<ret, hnd, upd, arg, val, ref, li, called, cfgVars, mqVars, srcVars, appVars>>

\* start(): threading.Thread(target=self._run).start()
start_spawn(t) ==
  /\ pc[t] = "st_spawn"
  /\ spawned' = [spawned EXCEPT ![arg[t]] = @ + 1]
  /\ pc' = [pc EXCEPT ![t] = "st_set",
                      ![arg[t]] = IF @ = "unstarted" THEN "run" ELSE @]
  /\ UNCHANGED <<stack, ret, hnd, upd, arg, val, ref, li, called, cfgVars, mqVars, running,
                 lower, upper, thread_started, produced, slept, callback, appVars>>

\* start(): self._thread_started = True
start_set(t) ==
  /\ pc[t] = "st_set"
  /\ thread_started' = [thread_started EXCEPT ![arg[t]] = TRUE]
  /\ Return(t)
  /\ UNCHANGED <<ret, hnd, upd, arg, val, ref, li, called, cfgVars, mqVars, running, lower,
                 upper, spawned, produced, slept, callback, appVars>>

start(t) ==
  \/ start_check(t)
  \/ start_spawn(t)
  \/ start_set(t)

\* pause(): self.running = False
pause(s) == running' = [running EXCEPT ![s] = FALSE]

\* resume(): self.running = True
resume(s) == running' = [running EXCEPT ![s] = TRUE]

\* stop(): self.running = False; the loop thread goes on
stop(s) == running' = [running EXCEPT ![s] = FALSE]

\* _run, top of the loop: `if self.running:` and, when it holds,
\* generate_readings()
run_check(s) ==
  /\ pc[s] = "run"
  /\ IF running[s]
     THEN /\ produced[s] < MaxReadings
          /\ produced' = [produced EXCEPT ![s] = @ + 1]
          /\ Goto(s, "run_call")
     ELSE /\ Goto(s, "run_sample")
          /\ UNCHANGED produced
  /\ UNCHANGED <<stack, ret, hnd, upd, arg, val, ref, li, called, cfgVars, mqVars, running,
                 lower, upper, thread_started, spawned, slept, callback, appVars>>

\* _run: `if self.callback: self.callback({...})`: the reading is handed to
\* the callback the source was built with, if it has one
run_call(s) ==
  /\ pc[s] = "run_call"
  /\ Goto(s, IF callback[s] = "None" THEN "run_sample" ELSE callback[s])
  /\ UNCHANGED <<stack, ret, hnd, upd, arg, val, ref, li, called, cfgVars, mqVars, srcVars, appVars>>

\* a delivery callback that lets its exception out, with no handler in _run:
\* the loop thread ends
callback_run_NoExcept(s) ==
  /\ pc[s] = "callback"
  /\ \E o \in Outcomes :
       /\ ret' = [ret EXCEPT ![s] = Ret("callback", o)]
       /\ Goto(s, IF o = "ok" THEN "run_sample" ELSE "dead")
  /\ UNCHANGED <<stack, hnd, upd, arg, val, ref, li, called, cfgVars, mqVars, srcVars, appVars>>

\* A delivery callback other than publish_callback runs: it returns, or it
\* raises and the inner except clause of _run logs the error.  Either way the
\* loop goes on to its sleep.
callback_run(s) ==
  /\ pc[s] = "callback"
  /\ \E o \in Outcomes :
       /\ ret' = [ret EXCEPT ![s] = Ret("callback", o)]
       /\ Goto(s, "run_sample")
  /\ UNCHANGED <<stack, hnd, upd, arg, val, ref, li, called, cfgVars, mqVars, srcVars, appVars>>

\* float(v) is defined for the value v
IsNumber(v) == v \notin {"None", ""}

\* v is the text of a number below zero
IsNegative(v) == v \in {"-1.0"}

\* the number a numeric text stands for, in tenths
Val(v) ==
  CASE v = "0.0" -> 0 [] v = "1.0" -> 10 [] v = "2.0" -> 20
    [] v = "3.0" -> 30 [] v = "5.0" -> 50 [] v = "-1.0" -> 0 - 10

\* the loop has not sampled a sleep yet
NoSleep == [st |-> "none", lo |-> "-", hi |-> "-"]

\* _run: random.uniform(self.interval_lower_bound, ...): the lower bound is read
run_sample(s) ==
  /\ pc[s] = "run_sample"
  /\ slept' = [slept EXCEPT ![s] = [st |-> "sampling", lo |-> lower[s], hi |-> "-"]]
  /\ Goto(s, "run_upper")
  /\ UNCHANGED <<stack, ret, hnd, upd, arg, val, ref, li, called, cfgVars, mqVars, running,
                 lower, upper, thread_started, spawned, produced, callback, appVars>>

\* the outcomes of sampling uniformly between lo and hi and sleeping for the
\* sample: random.uniform raises TypeError on a bound that is not a number,
\* time.sleep raises ValueError on a negative duration
SleepOutcomes(lo, hi) ==
  IF ~IsNumber(lo) \/ ~IsNumber(hi) THEN {"raised"}
  ELSE IF IsNegative(lo) /\ IsNegative(hi) THEN {"raised"}
  ELSE IF IsNegative(lo) \/ IsNegative(hi) THEN {"raised", "slept"}
  ELSE {"slept"}

\* a loop with no outer except clause: an error of sampling or sleeping ends
\* the loop thread
run_sleep_NoExcept(s) ==
  /\ pc[s] = "run_upper"
  /\ \E o \in SleepOutcomes(slept[s].lo, upper[s]) :
       /\ slept' = [slept EXCEPT ![s] = [st |-> o, lo |-> @.lo, hi |-> upper[s]]]
       /\ Goto(s, IF o = "slept" THEN "run" ELSE "dead")
  /\ UNCHANGED <<stack, ret, hnd, upd, arg, val, ref, li, called, cfgVars, mqVars, running,
                 lower, upper, thread_started, spawned, produced, callback, appVars>>

\* _run: the upper bound is read, sleep_time = random.uniform(lower, upper) is
\* drawn between the two bounds read, and time.sleep(sleep_time) returns; the
\* loop goes round again.  An error of sampling or sleeping is logged by the
\* outer except clause and the loop goes round again without having slept.
\* `slept` keeps the bounds the duration was drawn between.
run_sleep(s) ==
  /\ pc[s] = "run_upper"
  /\ \E o \in SleepOutcomes(slept[s].lo, upper[s]) :
       slept' = [slept EXCEPT ![s] = [st |-> o, lo |-> @.lo, hi |-> upper[s]]]
  /\ Goto(s, "run")
  /\ UNCHANGED <<stack, ret, hnd, upd, arg, val, ref, li, called, cfgVars, mqVars, running,
                 lower, upper, thread_started, spawned, produced, callback, appVars>>

\* ============================================== app.py: fan-out and control

\* publish_callback entered without waiting for publish_and_emit_lock
publish_callback_acquire_NoLock(s) ==
  /\ pc[s] = "publish_callback"
  /\ peLock' = s
  /\ events' = Logged(s, "begin")
  /\ ret' = [ret EXCEPT ![s] = NoRet]
  /\ Call(s, "safePublish", "pc_emit")
  /\ UNCHANGED <<hnd, upd, arg, val, ref, li, called, cfgVars, mqVars, srcVars, announced>>

\* publish_callback: `with publish_and_emit_lock:` acquired, then
\* mqtt_manager.safePublish(payload) is called
publish_callback_acquire(s) ==
  /\ pc[s] = "publish_callback"
  /\ peLock = NoOwner
  /\ peLock' = s
  /\ events' = Logged(s, "begin")
  /\ ret' = [ret EXCEPT ![s] = NoRet]
  /\ Call(s, "safePublish", "pc_emit")
  /\ UNCHANGED <<hnd, upd, arg, val, ref, li, called, cfgVars, mqVars, srcVars, announced>>

\* publish_callback after safePublish: safe_emit("meter_reading", payload) and
\* the release of the lock.  An exception out of safePublish leaves the with
\* block at once: the lock is released, nothing is emitted, and _run logs the
\* callback error.  Either way _run goes on to its sleep.
publish_callback_emit(s) ==
  /\ pc[s] = "pc_emit"
  /\ events' = IF ret[s].val = "raised" THEN events ELSE Logged(s, "emit")
  /\ peLock' = NoOwner
  /\ Goto(s, "run_sample")
  /\ UNCHANGED <<stack, ret, hnd, upd, arg, val, ref, li, called, cfgVars, mqVars, srcVars, announced>>

publish_callback(s) ==
  \/ publish_callback_acquire(s)
  \/ publish_callback_emit(s)

\* str.upper() on the action names that reach apply_action
Upper(a) ==
  CASE a \in {"pause", "Pause", "PAUSE"} -> "PAUSE"
    [] a \in {"resume", "Resume", "RESUME"} -> "RESUME"
    [] a = "reset" -> "RESET"
    [] OTHER -> a

\* apply_action(action, consumer, generator, source) with arg[t] = [action,
\* source]: action.upper() raises AttributeError when action is None; RESUME
\* and PAUSE act on the consumer first; any other action is logged and ignored
apply_action_first(t) ==
  /\ pc[t] = "apply_action"
  /\ LET a == arg[t].action IN
       IF a = "None"
       THEN /\ ret' = [ret EXCEPT ![t] = Ret("apply_action", "AttributeError")]
            /\ Return(t)
            /\ UNCHANGED running
       ELSE IF Upper(a) = "RESUME"
       THEN /\ resume("Load")
            /\ Goto(t, "aa_second")
            /\ UNCHANGED <<stack, ret>>
       ELSE IF Upper(a) = "PAUSE"
       THEN /\ pause("Load")
            /\ Goto(t, "aa_second")
            /\ UNCHANGED <<stack, ret>>
       ELSE /\ ret' = [ret EXCEPT ![t] = Ret("apply_action", "unknown")]
            /\ Return(t)
            /\ UNCHANGED running
  /\ UNCHANGED <<hnd, upd, arg, val, ref, li, called, cfgVars, mqVars, lower, upper,
                 thread_started, spawned, produced, slept, callback, appVars>>

\* apply_action: the same call on the generator
apply_action_second(t) ==
  /\ pc[t] = "aa_second"
  /\ IF Upper(arg[t].action) = "RESUME" THEN resume("Generator")
     ELSE pause("Generator")
  /\ Goto(t, "aa_emit")
  /\ UNCHANGED <<stack, ret, hnd, upd, arg, val, ref, li, called, cfgVars, mqVars, lower, upper,
                 thread_started, spawned, produced, slept, callback, appVars>>

\* apply_action: safe_emit("mqtt_message", "Action: <ACTION> (<source>)")
apply_action_emit(t) ==
  /\ pc[t] = "aa_emit"
  /\ announced' = [action |-> Upper(arg[t].action), source |-> arg[t].source]
  /\ ret' = [ret EXCEPT ![t] = Ret("apply_action", "done")]
  /\ Return(t)
  /\ UNCHANGED <<hnd, upd, arg, val, ref, li, called, cfgVars, mqVars, srcVars, peLock, events>>

apply_action(t) ==
  \/ apply_action_first(t)
  \/ apply_action_second(t)
  \/ apply_action_emit(t)

\* handle_control_action(data): apply_action(data.get("action"), source="UI")
handle_control_action(t, a) ==
  /\ pc[t] = "idle"
  /\ arg' = [arg EXCEPT ![t] = [action |-> a, source |-> "UI"]]
  /\ ret' = [ret EXCEPT ![t] = NoRet]
  /\ Call(t, "apply_action", "idle")
  /\ UNCHANGED <<hnd, upd, val, ref, li, called, cfgVars, mqVars, srcVars, appVars>>

\* main(): energy_consumer.start()
main_consumer ==
  /\ pc[Main] = "main"
  /\ arg' = [arg EXCEPT ![Main] = "Load"]
  /\ Call(Main, "start", "main_generator")
  /\ UNCHANGED <<ret, hnd, upd, val, ref, li, called, cfgVars, mqVars, srcVars, appVars>>

\* main(): energy_generator.start()
main_generator ==
  /\ pc[Main] = "main_generator"
  /\ arg' = [arg EXCEPT ![Main] = "Generator"]
  /\ Call(Main, "start", "main_mqtt")
  /\ UNCHANGED <<ret, hnd, upd, val, ref, li, called, cfgVars, mqVars, srcVars, appVars>>

\* main(): mqtt_manager.startClient()
main_mqtt ==
  /\ pc[Main] = "main_mqtt"
  /\ Call(Main, "startClient", "main_on_change")
  /\ UNCHANGED <<ret, hnd, upd, arg, val, ref, li, called, cfgVars, mqVars, srcVars, appVars>>

\* main(): config_manager.on_change(lambda new_cfg: apply_config(...)), after
\* which the server accepts requests
main_on_change ==
  /\ pc[Main] = "main_on_change"
  /\ listeners' = Append(listeners, "apply_config")
  /\ Goto(Main, "serving")
  /\ UNCHANGED <<stack, ret, hnd, upd, arg, val, ref, li, called, heap, cfgRef, file, disk,
                 saveOutcome, cfgLock, handed, mqVars, srcVars, appVars>>

main ==
  \/ main_consumer
  \/ main_generator
  \/ main_mqtt
  \/ main_on_change

\* ------------------------------------------------------- initial states
\* A config file left by an earlier run with a broker configured.
BROKER_CONFIG ==
  [DEFAULT_CONFIG EXCEPT !.mqtt_host = "broker", !.mqtt_publish_enabled = "True"]

\* The same file written without the mqtt_publish_enabled key.
BROKER_CONFIG_NO_FLAG ==
  [k \in DOMAIN BROKER_CONFIG \ {"mqtt_publish_enabled"} |-> BROKER_CONFIG[k]]

StoredConfigs == {BROKER_CONFIG, BROKER_CONFIG_NO_FLAG}

\* ConfigManager.__init__ has run load(): either the file existed and was
\* parsed, or it was missing or did not parse and DEFAULT_CONFIG was taken and
\* saved (with any outcome of the write).
InitStores ==
  {[cfg |-> c, file |-> FileOf(c), out |-> "none"] : c \in StoredConfigs}
  \cup {[cfg |-> DEFAULT_CONFIG, file |-> save(f, DEFAULT_CONFIG, o),
         out |-> o] : f \in {MissingFile, CorruptFile}, o \in SaveOutcomes}

InitThreads ==
  /\ pc = [t \in Threads |-> IF t \in Sources THEN "unstarted"
                             ELSE IF t = Main THEN "serving" ELSE "idle"]
  /\ stack = [t \in Threads |-> <<>>]
  /\ ret = [t \in Threads |-> NoRet]
  /\ hnd = [t \in Threads |-> NoClient]
  /\ upd = [t \in Threads |-> EmptyDict]
  /\ arg = [t \in Threads |-> NoArg]
  /\ ref = [t \in Threads |-> 0]
  /\ li = [t \in Threads |-> 0]
  /\ called = [t \in Threads |-> <<>>]
  /\ val = [t \in Threads |-> NoVal]

InitConfig(store) ==
  /\ disk = "faulty"
  /\ heap = <<store.cfg>>
  /\ cfgRef = 1
  /\ file = store.file
  /\ saveOutcome = store.out
  /\ cfgLock = FreeLock
  /\ listeners = <<>>
  /\ handed = {}

\* MqttManager.__init__: no client; self.config is the dict object o
InitMqtt(o) ==
  /\ mqttCfg = o
  /\ mqtt_client = NoClient
  /\ mqttLock = FreeLock
  /\ cl = [c \in Clients |-> DeadClient]
  /\ nextClient = 1

\* DataSource.__init__ for both sources, with the bounds of config dict d
InitSources(d) ==
  /\ running = [s \in Sources |-> TRUE]
  /\ lower = [s \in Sources |-> IF s = "Load" THEN d["interval_consumed_lower"]
                                ELSE d["interval_generated_lower"]]
  /\ upper = [s \in Sources |-> IF s = "Load" THEN d["interval_consumed_upper"]
                                ELSE d["interval_generated_upper"]]
  /\ thread_started = [s \in Sources |-> FALSE]
  /\ spawned = [s \in Sources |-> 0]
  /\ slept = [s \in Sources |-> NoSleep]
  /\ callback = [s \in Sources |-> "publish_callback"]
  /\ produced = [s \in Sources |-> 0]

\* no mqtt_message has been emitted yet
NoAnnouncement == [action |-> "None", source |-> "None"]

InitApp ==
  /\ peLock = NoOwner
  /\ events = <<>>
  /\ announced = NoAnnouncement

\* ===================================== SpecUpdate: concurrent update() calls
\* Each request thread writes a key of its own.
UpdKey ==
  [req1 |-> "interval_consumed_lower", req2 |-> "mqtt_host",
   req3 |-> "mqtt_publish_enabled"]

UpdValues ==
  [req1 |-> {"1.0", "3.0"}, req2 |-> {"broker", "backup"},
   req3 |-> {"True", "False"}]

InitUpdate ==
  /\ InitThreads
  /\ \E store \in InitStores : InitConfig(store) /\ InitSources(store.cfg)
  /\ InitMqtt(1)
  /\ InitApp

NextUpdate ==
  \/ \E t \in Reqs : \E v \in UpdValues[t] :
       update_call(t, [k \in {UpdKey[t]} |-> v])
  \/ \E t \in Reqs : update(t)
  \/ \E t \in Reqs : listener(t)
  \/ \E t \in Reqs : on_change(t, "listener")
  \/ \E t \in Reqs : upd[t] # EmptyDict /\ Invoke(t, "get")
  \/ \E t \in Reqs : get(t, UpdKey[t], "None")

SpecUpdate == InitUpdate /\ [][NextUpdate]_vars

\* every request thread has called update() and no call is in progress
AllReturned == \A t \in Reqs : pc[t] = "idle" /\ upd[t] # EmptyDict

\* the backing file parses and holds the fields of dict u
FileHolds(u) ==
  /\ file.st = "ok"
  /\ \A k \in DOMAIN u : k \in DOMAIN file.d /\ file.d[k] = u[k]

\* C3: no lost update.  Once the update() calls of all threads (each writing a
\* key of its own) have returned, get(k) gives, for every thread's key, the
\* value that thread wrote last, and the backing file holds all these keys
\* with these values whenever the latest storage write went through; a get(k)
\* that follows a thread's own update({k: v}) returns v.
C3_NoLostUpdate ==
  /\ AllReturned =>
       /\ \A t \in Reqs : Get(heap[cfgRef], UpdKey[t], "None") = upd[t][UpdKey[t]]
       /\ saveOutcome = "ok" => \A t \in Reqs : FileHolds(upd[t])
  /\ \A t \in Reqs : ret[t].op = "get" => ret[t].val = upd[t][UpdKey[t]]

\* all three threads have updated, the last write went through, and a thread
\* has read its key back
C3_Witness ==
  /\ AllReturned
  /\ saveOutcome = "ok"
  /\ \E t \in Reqs : ret[t].op = "get"
  /\ \E t \in Reqs : heap[cfgRef][UpdKey[t]] # DEFAULT_CONFIG[UpdKey[t]]

\* C4: while a change listener invoked by update() runs, the backing file
\* holds the fields that this update() merged (persisted before observed),
\* whatever the outcome of the write in save().
C4_PersistedBeforeNotify ==
  \A t \in Reqs : pc[t] = "listener" => FileHolds(upd[t])

\* ============================ SpecConfig: readers and writers of the config
\* One request thread writes the config, the other reads it.
Writer == "req1"
Reader == "req2"

\* the update the writer issues
CfgUpdate == [mqtt_host |-> "broker"]

NextConfig ==
  \/ update_call(Writer, CfgUpdate)
  \/ update(Writer)
  \/ listener(Writer)
  \/ on_change(Writer, "listener")
  \/ Invoke(Reader, "all")
  \/ all(Reader)
  \/ Invoke(Reader, "load")
  \/ load(Reader)
  \/ \E o \in 1..Len(heap) : callerSets(o, "mqtt_host", "mine")

SpecConfig == InitUpdate /\ [][NextConfig]_vars

\* C5: no value handed out by ConfigManager (by all(), by load(), or to a
\* change listener) aliases the internal config: the merge of an update()
\* changes no dict that was handed out before, and a caller's change to a dict
\* it was handed does not change the internal config that get()/all() read.
C5_NoAliasing ==
  [][/\ update_merge(Writer)
          => \A o \in handed : heap'[o] = heap[o]
     /\ (\E o \in 1..Len(heap) : callerSets(o, "mqtt_host", "mine"))
          => heap'[cfgRef] = heap[cfgRef]]_vars

\* ======================= SpecMqtt: the bus client used by concurrent threads
MqttThreads == {"req1", "req2"}

\* configuration forms posted by the user
MqttUpdates ==
  {[mqtt_host |-> "broker", mqtt_publish_enabled |-> "True"],
   [mqtt_host |-> "", mqtt_publish_enabled |-> "False"]}

\* main() has built the ConfigManager, handed the MqttManager the copy made by
\* all() and registered apply_config as the change listener.
InitMqttSpec ==
  /\ InitThreads
  /\ \E c \in StoredConfigs \cup {DEFAULT_CONFIG} :
       /\ heap = <<c, c>>
       /\ file = FileOf(c)
       /\ InitSources(c)
  /\ cfgRef = 1
  /\ disk = "reliable"
  /\ saveOutcome = "none"
  /\ cfgLock = FreeLock
  /\ listeners = <<"apply_config">>
  /\ handed = {2}
  /\ InitMqtt(2)
  /\ InitApp

\* req1 serves configuration posts, req2 serves status and publish requests;
\* both may start and stop the client.
NextMqtt ==
  \/ \E t \in MqttThreads : Invoke(t, "startClient")
  \/ \E t \in MqttThreads : Invoke(t, "stopClient")
  \/ Invoke("req2", "safePublish")
  \/ Invoke("req2", "isConnected")
  \/ \E u \in MqttUpdates : update_call("req1", u)
  \/ update("req1")
  \/ apply_config("req1")
  \/ \E t \in MqttThreads : startClient(t)
  \/ \E t \in MqttThreads : stopClient(t)
  \/ safePublish("req2")
  \/ isConnected("req2")
  \/ \E c \in Clients : NetConnAck(c)
  \/ \E c \in Clients : NetDrop(c)

SpecMqtt == InitMqttSpec /\ [][NextMqtt]_vars

\* C2: at most one broker connection created by the manager is live (its
\* socket is open or its network loop runs), in every reachable state, for
\* every outcome of connect, loop_start, loop_stop and disconnect.
C2_AtMostOneLive == Cardinality({c \in Clients : Live(c)}) <= 1

\* C6: safePublish excludes startClient and stopClient: once it has checked the
\* handle, no other thread holds the manager's lock before it is done, and the
\* handle it goes on to use is the one it checked.
C6_SafePublishExclusive ==
  \A t \in Threads :
    pc[t] \in {"sp_connected", "sp_publish"} =>
      /\ mqttLock.owner \in {NoOwner, t}
      /\ mqtt_client = hnd[t]

\* C8: isConnected() never raises, in every interleaving with startClient and
\* stopClient, and answers True only if a handle exists and it reports
\* connected.
C8_IsConnectedNeverRaises ==
  [][\A t \in Threads :
       isConnected_second(t) =>
         /\ ret'[t].val # "AttributeError"
         /\ ret'[t].val = "True" =>
              mqtt_client # NoClient /\ cl[mqtt_client].reports]_vars

\* =================== SpecSeq: the bus client used by one thread at a time
\* One thread calls the manager; the network changes a connection's state only
\* between two calls.
Caller == "req1"

NextSeq ==
  \/ Invoke(Caller, "startClient")
  \/ Invoke(Caller, "stopClient")
  \/ Invoke(Caller, "safePublish")
  \/ \E u \in MqttUpdates : update_call(Caller, u)
  \/ update(Caller)
  \/ apply_config(Caller)
  \/ startClient(Caller)
  \/ stopClient(Caller)
  \/ safePublish(Caller)
  \/ \E c \in Clients : pc[Caller] = "idle" /\ NetConnAck(c)
  \/ \E c \in Clients : pc[Caller] = "idle" /\ NetDrop(c)

SpecSeq == InitMqttSpec /\ [][NextSeq]_vars

\* publishing is enabled in the manager's configuration
PublishEnabled == Truthy(Get(heap[mqttCfg], "mqtt_publish_enabled", "False"))

\* C7: when safePublish is done, it has made a publish call on the transport
\* only if mqtt_publish_enabled is present and true in the manager's
\* configuration, the handle is not null and the handle reports connected; in
\* every other case it made none, and it did not raise.
C7_PublishOnlyWhenEnabledAndConnected ==
  pc[Caller] = "sp_done" =>
    /\ ret[Caller].val \in {"published", "skipped"}
    /\ ret[Caller].val = "published" =>
         /\ PublishEnabled
         /\ mqtt_client # NoClient
         /\ cl[mqtt_client].reports

\* a publish call has reached the transport
C7_Witness == pc[Caller] = "sp_done" /\ ret[Caller].val = "published"

\* safePublish made no call although a client exists: it is not connected yet
C7_WitnessSkipped ==
  /\ pc[Caller] = "sp_done"
  /\ ret[Caller].val = "skipped"
  /\ mqtt_client # NoClient
  /\ PublishEnabled


\* ============================ Spec: the application as main() assembles it
\* the thread that serves the user interface
Ui == "req1"

\* configurations posted from the configuration page
PostedConfigs ==
  {[DEFAULT_CONFIG EXCEPT !.mqtt_host = "broker", !.mqtt_publish_enabled = "True",
                          !.interval_consumed_lower = "1.0"]}

\* actions sent by the user interface
UiActions == {"PAUSE", "RESUME", "resume", "reset", "None"}

\* main() has built the ConfigManager, the MqttManager (with the copy made by
\* all()) and both sources, and is about to start the sources.
Init ==
  /\ pc = [t \in Threads |-> IF t \in Sources THEN "unstarted"
                             ELSE IF t = Main THEN "main" ELSE "idle"]
  /\ stack = [t \in Threads |-> <<>>]
  /\ ret = [t \in Threads |-> NoRet]
  /\ hnd = [t \in Threads |-> NoClient]
  /\ upd = [t \in Threads |-> EmptyDict]
  /\ arg = [t \in Threads |-> NoArg]
  /\ ref = [t \in Threads |-> 0]
  /\ li = [t \in Threads |-> 0]
  /\ called = [t \in Threads |-> <<>>]
  /\ val = [t \in Threads |-> NoVal]
  /\ \E c \in {BROKER_CONFIG, DEFAULT_CONFIG} :
       /\ heap = <<c, c>>
       /\ file = FileOf(c)
       /\ InitSources(c)
  /\ cfgRef = 1
  /\ disk = "reliable"
  /\ saveOutcome = "none"
  /\ cfgLock = FreeLock
  /\ listeners = <<>>
  /\ handed = {2}
  /\ InitMqtt(2)
  /\ InitApp

Serving == pc[Main] = "serving"

\* stopClient() as main()'s startClient() runs it: no client exists yet, so
\* `if self.mqtt_client:` fails and only the finally clause acts
stopClient_noClient(t) ==
  \/ stopClient_enter(t)
  \/ stopClient_finally(t)

\* Both sources, the bus client and configuration posts from the user.
Next ==
  \/ main
  \/ start(Main)
  \/ \E t \in {Main, Ui} : startClient(t)
  \/ \E t \in {Main, Ui} : stopClient(t)
  \/ \E s \in Sources : run_check(s)
  \/ \E s \in Sources : run_call(s)
  \/ \E s \in Sources : publish_callback(s)
  \/ \E s \in Sources : safePublish(s)
  \/ \E s \in Sources : run_sample(s)
  \/ \E s \in Sources : run_sleep(s)
  \/ Serving /\ \E u \in PostedConfigs : update_call(Ui, u)
  \/ update(Ui)
  \/ apply_config(Ui)
  \/ \E c \in Clients : NetConnAck(c)
  \/ \E c \in Clients : NetDrop(c)

Spec == Init /\ [][Next]_vars

\* Both sources and control actions from the user; the bus client is started
\* by main() and never restarted.
NextControl ==
  \/ main
  \/ start(Main)
  \/ startClient(Main)
  \/ stopClient_noClient(Main)
  \/ \E c \in Clients : NetConnAck(c)
  \/ \E c \in Clients : NetDrop(c)
  \/ \E s \in Sources : run_check(s)
  \/ \E s \in Sources : run_call(s)
  \/ \E s \in Sources : publish_callback(s)
  \/ \E s \in Sources : safePublish(s)
  \/ \E s \in Sources : run_sample(s)
  \/ \E s \in Sources : run_sleep(s)
  \/ Serving /\ \E a \in UiActions : handle_control_action(Ui, a)
  \/ apply_action(Ui)

SpecControl == Init /\ [][NextControl]_vars


\* The sources and the broker connection, with no request from the user.
NextFanout ==
  \/ main
  \/ start(Main)
  \/ startClient(Main)
  \/ stopClient_noClient(Main)
  \/ \E s \in Sources : run_check(s)
  \/ \E s \in Sources : run_call(s)
  \/ \E s \in Sources : publish_callback(s)
  \/ \E s \in Sources : safePublish(s)
  \/ \E s \in Sources : run_sample(s)
  \/ \E s \in Sources : run_sleep(s)
  \/ \E c \in Clients : NetConnAck(c)
  \/ \E c \in Clients : NetDrop(c)

SpecFanout == Init /\ [][NextFanout]_vars

\* A configuration is posted while the load source runs; the generator's
\* thread is not scheduled.
NextRestart ==
  \/ main
  \/ start(Main)
  \/ \E t \in {Main, Ui} : startClient(t)
  \/ \E t \in {Main, Ui} : stopClient(t)
  \/ run_check("Load")
  \/ run_call("Load")
  \/ publish_callback("Load")
  \/ safePublish("Load")
  \/ run_sample("Load")
  \/ run_sleep("Load")
  \/ Serving /\ \E u \in PostedConfigs : update_call(Ui, u)
  \/ update(Ui)
  \/ apply_config(Ui)
  \/ \E c \in Clients : NetConnAck(c)
  \/ \E c \in Clients : NetDrop(c)

SpecRestart == Init /\ [][NextRestart]_vars


\* ------------------------------------------------ claims about the sources
\* C1: once pause() has cleared the running flag of a source, and until
\* resume() sets it again, the loop of that source does not invoke the delivery
\* callback, in every interleaving of pause() with the loop (SpecControl).
C1_NoCallbackWhilePaused ==
  [][\A s \in Sources : run_call(s) => running[s]]_vars

\* two log entries of the same reading
SameReading(e, f) == e.src = f.src /\ e.n = f.n

\* C9: in the order in which the two sinks are acted on, the entries of one
\* reading (lock taken, bus publish, broadcast) are consecutive: a reading whose
\* fan-out started first has its publish and its broadcast before the publish
\* and the broadcast of any other reading (SpecFanout).
C9_FanoutNotInterleaved ==
  /\ \A i \in 1..Len(events) : \A k \in i..Len(events) :
       SameReading(events[i], events[k]) =>
         \A j \in i..k : SameReading(events[j], events[i])
  /\ \A i \in 1..Len(events) :
       events[i].kind # "begin" => i > 1 /\ SameReading(events[i-1], events[i])

\* the log entries of source s of the given kind
EventsOf(s, kind) == {i \in 1..Len(events) : events[i].src = s /\ events[i].kind = kind}

\* C9 witness: the generator's reading has been published and broadcast, the
\* load's reading has been published and its broadcast is still to come, and
\* the generator waits for the lock with its next reading.
C9_Witness ==
  /\ EventsOf("Generator", "publish") # {}
  /\ EventsOf("Generator", "emit") # {}
  /\ pc["Load"] = "sp_done"
  /\ ret["Load"].val = "published"
  /\ peLock = "Load"
  /\ pc["Generator"] = "publish_callback"

\* C10: every reading handed to publish_callback is broadcast: once the
\* callback of a source has finished, the log holds the meter_reading emit of
\* the reading it was given, whatever the bus client and startClient() and
\* stopClient() do meanwhile (SpecRestart).
C10_EveryReadingBroadcast ==
  \A s \in Sources :
    (produced[s] > 0 /\ pc[s] \in {"run_sample", "run_upper", "run"}) =>
      \E i \in 1..Len(events) :
        events[i] = [src |-> s, n |-> produced[s], kind |-> "emit"]


\* ------------------------------------------ claims about control actions
\* C11: apply_action with an action that is neither PAUSE nor RESUME in any
\* letter case, a missing (None) action included, leaves both running flags
\* as they are, announces nothing, and returns without raising (SpecControl).
C11_UnknownActionIgnored ==
  [][\A t \in Threads :
       (apply_action_first(t) /\ Upper(arg[t].action) \notin {"PAUSE", "RESUME"})
         => /\ running' = running
            /\ announced' = announced
            /\ ret'[t].val # "AttributeError"]_vars


\* MqttManager._on_message, on the client's network thread: the payload is
\* decoded and handed to message_callback, which main() wired to
\* apply_action(payload, source="MQTT"); what the callback raises is caught
\* and logged.  A message arrives only on a connection the broker acknowledged.
on_message(t, payload) ==
  /\ pc[t] = "idle"
  /\ \E c \in Clients : cl[c].loop /\ cl[c].reports
  /\ arg' = [arg EXCEPT ![t] = [action |-> payload, source |-> "MQTT"]]
  /\ ret' = [ret EXCEPT ![t] = NoRet]
  /\ Call(t, "apply_action", "idle")
  /\ UNCHANGED <<hnd, upd, val, ref, li, called, cfgVars, mqVars, srcVars, appVars>>

\* control messages published on the control topic
BusActions == {"PAUSE", "RESUME"}

\* ============== SpecActions: control actions from the UI and from the bus
\* main() starts up; control actions then arrive from both origins.  The loops
\* of the sources are not scheduled.
NextActions ==
  \/ main
  \/ start(Main)
  \/ startClient(Main)
  \/ stopClient_noClient(Main)
  \/ \E c \in Clients : NetConnAck(c)
  \/ \E c \in Clients : NetDrop(c)
  \/ Serving /\ \E a \in UiActions : handle_control_action(Ui, a)
  \/ \E a \in BusActions : on_message(Net, a)
  \/ \E t \in {Ui, Net} : apply_action(t)

SpecActions == Init /\ [][NextActions]_vars

\* an apply_action call is in progress
InApplyAction(t) == pc[t] \in {"apply_action", "aa_second", "aa_emit"}

\* C12: whenever no apply_action call is in progress, the Load source and the
\* Generator source have the same running flag, for actions of both origins in
\* every interleaving (SpecActions).
C12_UniformRunning ==
  (\A t \in Threads : ~InApplyAction(t)) => running["Load"] = running["Generator"]


\* the last announcement is that of a PAUSE from the UI, and no RESUME has
\* been issued that is still to be announced
PauseAnnounced ==
  /\ announced = [action |-> "PAUSE", source |-> "UI"]
  /\ \A t \in Threads : ~(InApplyAction(t) /\ Upper(arg[t].action) = "RESUME")

\* C13: a PAUSE applied from the UI is announced by one mqtt_message event
\* "Action: PAUSE (UI)" (only the emit of apply_action changes what was
\* announced), and after that event no meter_reading event is emitted for
\* either source until a RESUME is issued (SpecControl).
C13_NoReadingAfterPauseAnnounced ==
  [][/\ \A t \in Threads :
          (apply_action_emit(t) /\ Upper(arg[t].action) = "PAUSE"
             /\ arg[t].source = "UI")
            => announced' = [action |-> "PAUSE", source |-> "UI"]
     /\ announced' # announced => \E t \in Threads : apply_action_emit(t)
     /\ \A s \in Sources :
          (publish_callback_emit(s) /\ events' # events) => ~PauseAnnounced]_vars


\* ===================== SpecStart: start() called from several threads
\* a thread calls start() on source s
start_call(t, s) ==
  /\ pc[t] = "idle"
  /\ arg' = [arg EXCEPT ![t] = s]
  /\ ret' = [ret EXCEPT ![t] = NoRet]
  /\ Call(t, "start", "idle")
  /\ UNCHANGED <<hnd, upd, val, ref, li, called, cfgVars, mqVars, srcVars, appVars>>

\* Both sources are constructed and not started; any request thread may call
\* start() on either of them at any time.
NextStart ==
  \/ \E t \in Reqs : \E s \in Sources : start_call(t, s)
  \/ \E t \in Reqs : start(t)

SpecStart == InitMqttSpec /\ [][NextStart]_vars

\* C14: for any number of start() calls on a source, sequential or concurrent,
\* at most one generation-loop thread was spawned for it, and no step of
\* start() changes the running flag or the interval bounds (SpecStart).
C14_AtMostOneLoop ==
  /\ \A s \in Sources : spawned[s] <= 1
  /\ \A s \in Sources : running[s]
  /\ \E c \in StoredConfigs \cup {DEFAULT_CONFIG} :
       /\ lower = [s \in Sources |-> c[IF s = "Load" THEN "interval_consumed_lower"
                                       ELSE "interval_generated_lower"]]
       /\ upper = [s \in Sources |-> c[IF s = "Load" THEN "interval_consumed_upper"
                                       ELSE "interval_generated_upper"]]


\* ================= SpecListeners: change listeners that may raise
\* the thread that registers listeners
Registrar == "req2"

\* One thread posts updates while another registers listeners, each of which
\* may raise whenever it is invoked.
NextListeners ==
  \/ update_call(Writer, CfgUpdate)
  \/ update(Writer)
  \/ listener(Writer)
  \/ \E f \in PlainListeners : on_change(Registrar, f)

SpecListeners == InitUpdate /\ [][NextListeners]_vars

\* update() returns to its caller
UpdateReturns(t) ==
  /\ ret[t].op # "update"
  /\ ret'[t].op = "update"

\* C15: when update() returns, it has invoked every registered listener once,
\* in registration order, whichever of them raised, and it does not raise
\* itself (SpecListeners).
C15_EveryListenerOnce ==
  [][\A t \in Threads :
       UpdateReturns(t) => called[t] = listeners /\ ret'[t].val # "raised"]_vars

\* the second of two different listeners runs after the first one raised
C15_Witness ==
  /\ called[Writer] = <<"listener", "listener2">>
  /\ pc[Writer] = "listener2"
  /\ ret[Writer] = Ret("listener", "raise")


\* ------------------------------------------ the sampling loop on its own
\* the interval bounds a DataSource may be built with or be given later
LoopBounds == {"1.0", "2.0", "None", "-1.0"}

\* the source whose loop SpecLoop follows
LoopSource == "Load"

\* the client of the data sources in SpecLoop
Starter == "req1"

\* Two DataSource objects built with a callback that returns or raises and
\* with any bounds, neither started yet.
InitLoop ==
  /\ InitThreads
  /\ InitConfig([cfg |-> DEFAULT_CONFIG, file |-> FileOf(DEFAULT_CONFIG), out |-> "none"])
  /\ InitMqtt(1)
  /\ InitApp
  /\ running = [s \in Sources |-> TRUE]
  /\ \E lo \in LoopBounds, hi \in LoopBounds :
       /\ lower = [s \in Sources |-> lo]
       /\ upper = [s \in Sources |-> hi]
  /\ thread_started = [s \in Sources |-> FALSE]
  /\ spawned = [s \in Sources |-> 0]
  /\ produced = [s \in Sources |-> 0]
  /\ slept = [s \in Sources |-> NoSleep]
  /\ callback = [s \in Sources |-> "callback"]

\* a client calls pause() on a source
pause_call(s) ==
  /\ running[s]
  /\ pause(s)
  /\ UNCHANGED <<thrVars, cfgVars, mqVars, lower, upper, thread_started, spawned,
                 produced, slept, callback, appVars>>

\* a client calls stop() on a source
stop_call(s) ==
  /\ running[s]
  /\ stop(s)
  /\ UNCHANGED <<thrVars, cfgVars, mqVars, lower, upper, thread_started, spawned,
                 produced, slept, callback, appVars>>

\* a client calls resume() on a source
resume_call(s) ==
  /\ ~running[s]
  /\ resume(s)
  /\ UNCHANGED <<thrVars, cfgVars, mqVars, lower, upper, thread_started, spawned,
                 produced, slept, callback, appVars>>

\* one round of the loop of a source
run(s) ==
  \/ run_check(s)
  \/ run_call(s)
  \/ callback_run(s)
  \/ run_sample(s)
  \/ run_sleep(s)

\* A client starts the source, and pauses and resumes it at any time, while
\* its loop runs.
NextLoop ==
  \/ start_call(Starter, LoopSource)
  \/ start(Starter)
  \/ pause_call(LoopSource)
  \/ stop_call(LoopSource)
  \/ resume_call(LoopSource)
  \/ run_check(LoopSource)
  \/ run_call(LoopSource)
  \/ callback_run(LoopSource)
  \/ run_sample(LoopSource)
  \/ run_sleep(LoopSource)

\* The interpreter schedules every thread again and again and time.sleep
\* returns: a loop thread that can take its next step takes it, and a call of
\* start() runs to its end.
FairLoop ==
  /\ WF_vars(run(LoopSource))
  /\ WF_vars(start(Starter))

SpecLoop == InitLoop /\ [][NextLoop]_vars /\ FairLoop

\* where the thread of a source is while its loop lives
LoopLocations == {"run", "run_call", "callback", "run_sample", "run_upper"}

\* C16: a loop that was started never ends, whether the callback raises or
\* sampling or sleeping raises; and while the flag `running` of a started
\* source stays true, its next reading is delivered to the callback (SpecLoop,
\* for the readings below MaxReadings).
C16_LoopNeverEndsAndDelivers ==
  /\ [](\A s \in Sources : pc[s] \in LoopLocations \cup {"unstarted"})
  /\ \A s \in Sources : \A n \in 0..(MaxReadings - 1) :
       (pc[s] # "unstarted" /\ produced[s] = n /\ running[s])
         ~> (~running[s] \/ (produced[s] > n /\ pc[s] = "callback"))

\* a second reading is delivered after the callback raised on the first and
\* the sleep that followed raised as well
C16_Witness ==
  /\ ret["Load"] = Ret("callback", "raise")
  /\ slept["Load"].st = "raised"
  /\ produced["Load"] = 2
  /\ pc["Load"] = "callback"


\* ------------------------------------------ the configuration form
\* what the form may carry in a numeric field: nothing, text that is not a
\* number, or a number
FormNumbers == {"missing", "1", "5.0", "-1"}

\* request.form.get(name, type=float): None when the field is missing or
\* float() rejects it, the float otherwise
FormFloat(x) ==
  CASE x \in {"missing", "abc"} -> "None"
    [] x = "1" -> "1.0"
    [] x = "2" -> "2.0"
    [] x = "5.0" -> "5.0"
    [] x = "-1" -> "-1.0"

\* request.form.get("mqtt_port", type=int): None when the field is missing or
\* int() rejects it ("abc", "5.0"), the int otherwise
FormInt(x) == IF x \in {"1883", "1", "2", "-1"} THEN x ELSE "None"

\* request.form.get("mqtt_publish_enabled", "false").lower() == "true"
FormFlag(x) == IF x \in {"true", "True", "TRUE"} THEN "True" ELSE "False"

\* request.form.get("mqtt_host")
FormText(x) == IF x = "missing" THEN "None" ELSE x

\* what the form may carry as the uploaded certificate: no file, a file named
\* *.crt, a file with another name
FormCerts == {"missing", "ca.crt", "ca.pem"}

\* the forms posted to /configuration
Forms ==
  [consumed_lower : FormNumbers \ {"missing"}, consumed_upper : {"missing", "1"},
   generated_lower : {"2"}, generated_upper : {"5.0"},
   mqtt_publish_enabled : {"True"}, mqtt_host : {"missing"},
   mqtt_port : {"1883"}, mqtt_cert : FormCerts]

\* configuration(), POST: the dict built from the form, no field of it
\* checked; cert is the certificate file name the handler settled on
new_config(form, cert) ==
  [interval_consumed_lower |-> FormFloat(form.consumed_lower),
   interval_consumed_upper |-> FormFloat(form.consumed_upper),
   interval_generated_lower |-> FormFloat(form.generated_lower),
   interval_generated_upper |-> FormFloat(form.generated_upper),
   mqtt_publish_enabled |-> FormFlag(form.mqtt_publish_enabled),
   mqtt_host |-> FormText(form.mqtt_host),
   mqtt_port |-> FormInt(form.mqtt_port),
   mqtt_cert_filename |-> cert]

\* configuration(), POST arrives with a form: `if uploaded_cert:` the handler
\* calls config_manager.save_cert_file(uploaded_cert), otherwise it goes on
\* to build new_config
configuration_post(t, form) ==
  /\ pc[t] = "idle"
  /\ arg' = [arg EXCEPT ![t] = form]
  /\ ret' = [ret EXCEPT ![t] = NoRet]
  /\ IF form.mqtt_cert # "missing"
     THEN /\ pc' = [pc EXCEPT ![t] = "save_cert_file"]
          /\ stack' = [stack EXCEPT ![t] = <<"cf_build", "idle">> \o @]
     ELSE /\ pc' = [pc EXCEPT ![t] = "cf_build"]
          /\ stack' = [stack EXCEPT ![t] = <<"idle">> \o @]
  /\ UNCHANGED <<hnd, upd, val, ref, li, called, cfgVars, mqVars, srcVars, appVars>>

\* str.endswith(".crt")
EndsWithCrt(name) == name \in {"ca.crt"}

\* what writing the uploaded file can do: os.makedirs raises (outside the
\* try of save_cert_file), cert_file.save raises (inside it), or both succeed
CertOutcomes == {"ok", "makedirs_raises", "save_raises"}

\* save_cert_file(cert_file): a file not named *.crt is not saved and the
\* stored file name is returned (get, under the lock).  Otherwise the file is
\* written and update({"mqtt_cert_filename": name}) is called; when
\* cert_file.save raises, the except clause returns the stored file name;
\* when os.makedirs raises, the exception reaches configuration(), whose
\* except clause leaves cert_filename None.
save_cert_file(t) ==
  /\ pc[t] = "save_cert_file"
  /\ LET name == arg[t].mqtt_cert
         stored == Ret("save_cert_file", Get(heap[cfgRef], "mqtt_cert_filename", "None"))
     IN IF ~EndsWithCrt(name)
        THEN /\ CanAcquire(cfgLock, t)
             /\ ret' = [ret EXCEPT ![t] = stored]
             /\ Return(t)
             /\ UNCHANGED upd
        ELSE \E o \in CertOutcomes :
               CASE o = "ok" ->
                      /\ upd' = [upd EXCEPT ![t] = [mqtt_cert_filename |-> name]]
                      /\ Call(t, "update", "scf_return")
                      /\ UNCHANGED ret
                 [] o = "save_raises" ->
                      /\ CanAcquire(cfgLock, t)
                      /\ ret' = [ret EXCEPT ![t] = stored]
                      /\ Return(t)
                      /\ UNCHANGED upd
                 [] o = "makedirs_raises" ->
                      /\ ret' = [ret EXCEPT ![t] = Ret("save_cert_file", "None")]
                      /\ Return(t)
                      /\ UNCHANGED upd
  /\ UNCHANGED <<hnd, arg, val, ref, li, called, cfgVars, mqVars, srcVars, appVars>>

\* save_cert_file: update() has returned; `return cert_file.filename`
save_cert_file_return(t) ==
  /\ pc[t] = "scf_return"
  /\ ret' = [ret EXCEPT ![t] = Ret("save_cert_file", arg[t].mqtt_cert)]
  /\ Return(t)
  /\ UNCHANGED <<hnd, upd, arg, val, ref, li, called, cfgVars, mqVars, srcVars, appVars>>

\* configuration(): new_config is built, with
\* `cert_filename or config_manager.get("mqtt_cert_filename", "")` (get takes
\* the lock), and config_manager.update(new_config) is called; its return
\* ends the request
configuration_update(t) ==
  /\ pc[t] = "cf_build"
  /\ LET saved == IF ret[t].op = "save_cert_file" THEN ret[t].val ELSE "None"
     IN /\ ~Truthy(saved) => CanAcquire(cfgLock, t)
        /\ upd' = [upd EXCEPT ![t] =
                     new_config(arg[t],
                                IF Truthy(saved) THEN saved
                                ELSE Get(heap[cfgRef], "mqtt_cert_filename", ""))]
  /\ arg' = [arg EXCEPT ![t] = NoArg]
  /\ ret' = [ret EXCEPT ![t] = NoRet]
  /\ Goto(t, "update")
  /\ UNCHANGED <<stack, hnd, val, ref, li, called, cfgVars, mqVars, srcVars, appVars>>

\* the handler of POST /configuration, from the arrival of the form on
configuration(t) ==
  \/ save_cert_file(t)
  \/ save_cert_file_return(t)
  \/ configuration_update(t)

\* partial dicts a caller of update() passes
PartialUpdates ==
  {[interval_consumed_upper |-> "1.0"], [interval_generated_lower |-> "None"]}

\* A ConfigManager just loaded; one request thread posts forms and calls
\* update() with partial dicts, one call after the other.
NextForm ==
  \/ \E form \in Forms : configuration_post(Writer, form)
  \/ configuration(Writer)
  \/ \E u \in PartialUpdates : update_call(Writer, u)
  \/ update(Writer)

SpecForm == InitUpdate /\ [][NextForm]_vars

\* the interval bounds lo and hi of a config are numbers, not negative, in order
ValidInterval(c, lo, hi) ==
  /\ IsNumber(c[lo]) /\ IsNumber(c[hi])
  /\ Val(c[lo]) >= 0
  /\ Val(c[lo]) <= Val(c[hi])

\* C17: in every state the stored configuration holds, for the consumed and
\* for the generated interval, a lower and an upper bound that are numbers,
\* not negative, with lower <= upper (SpecForm).
C17_IntervalsValid ==
  /\ ValidInterval(heap[cfgRef], "interval_consumed_lower", "interval_consumed_upper")
  /\ ValidInterval(heap[cfgRef], "interval_generated_lower", "interval_generated_upper")


\* ------------------------------------------ claims about the client handle
\* startClient() returns to its caller
StartClientReturns(t) ==
  /\ pc[t] \in {"sc_host", "sc_loop_start", "sc_assign"}
  /\ Len(stack'[t]) < Len(stack[t])

\* C18: when stopClient() returns the handle is None, whether or not a client
\* existed and whether or not its teardown raised; when startClient() returns
\* the handle is the client this call connected and started, or None when no
\* host is configured or connecting or starting the loop failed, and neither
\* call raises; a client is only built when a host is configured (SpecMqtt).
C18_HandleAfterStopAndStart ==
  [][\A t \in Threads :
       /\ stopClient_finally(t) => mqtt_client' = NoClient
       /\ StartClientReturns(t) =>
            /\ ret'[t].val # "raised"
            /\ mqtt_client' \in {NoClient, hnd[t]}
            /\ mqtt_client' # NoClient => cl[hnd[t]].sock /\ cl[hnd[t]].loop
            /\ pc[t] # "sc_assign" => mqtt_client' = NoClient
       /\ (pc[t] = "sc_host" /\ hnd'[t] # hnd[t]) =>
            Truthy(Get(heap[mqttCfg], "mqtt_host", "None"))]_vars

\* a startClient() has connected after the teardown of the first client
\* raised: the handle is the second client, the first still has its socket
\* and its loop
C18_Witness ==
  /\ \A t \in MqttThreads : pc[t] = "idle"
  /\ mqtt_client = 2
  /\ cl[1].sock /\ cl[1].loop
  /\ ret["req2"] = Ret("startClient", "client")


\* ------------------------------------------ interval updates and the loops
\* updates that change only the consumed-interval keys
BoundUpdates ==
  {[interval_consumed_lower |-> "1.0", interval_consumed_upper |-> "1.0"],
   [interval_consumed_lower |-> "3.0", interval_consumed_upper |-> "5.0"]}

\* the thread that starts the Load source
LoadStarter == "req2"

\* The application with a broker configured: the manager holds the copy made
\* by all(), apply_config is registered, the sources are built from the
\* configuration with a delivery callback that returns or raises.
InitBounds ==
  /\ InitThreads
  /\ heap = <<BROKER_CONFIG, BROKER_CONFIG>>
  /\ file = FileOf(BROKER_CONFIG)
  /\ cfgRef = 1
  /\ disk = "reliable"
  /\ saveOutcome = "none"
  /\ cfgLock = FreeLock
  /\ listeners = <<"apply_config">>
  /\ handed = {2}
  /\ InitMqtt(2)
  /\ InitApp
  /\ running = [s \in Sources |-> TRUE]
  /\ lower = [s \in Sources |-> "2.0"]
  /\ upper = [s \in Sources |-> "5.0"]
  /\ thread_started = [s \in Sources |-> FALSE]
  /\ spawned = [s \in Sources |-> 0]
  /\ produced = [s \in Sources |-> 0]
  /\ slept = [s \in Sources |-> NoSleep]
  /\ callback = [s \in Sources |-> "callback"]

\* The Load loop runs while the configuration page posts, one after the
\* other, updates of the consumed interval.
NextBounds ==
  \/ start_call(LoadStarter, "Load")
  \/ start(LoadStarter)
  \/ run("Load")
  \/ \E u \in BoundUpdates : update_call(Ui, u)
  \/ update(Ui)
  \/ apply_config(Ui)
  \/ startClient(Ui)
  \/ stopClient(Ui)

SpecBounds == InitBounds /\ [][NextBounds]_vars

\* the last call of the configuration thread was an update() and it has returned
UpdateReturned == pc[Ui] = "idle" /\ ret[Ui] = Ret("update", "None")

\* every duration between a and b lies between lo and hi
SampleWithin(a, b, lo, hi) ==
  /\ Val(lo) <= Val(a) /\ Val(a) <= Val(hi)
  /\ Val(lo) <= Val(b) /\ Val(b) <= Val(hi)

\* C19: once an update() of the consumed-interval keys has returned, the
\* bounds of Load are the stored values, the bounds of Generator and both
\* running flags are what they were, no second loop thread exists, and every
\* sleep duration Load draws lies within the new bounds (SpecBounds).
C19_ConsumedUpdateApplied ==
  [][UpdateReturned =>
       /\ lower["Load"] = heap[cfgRef].interval_consumed_lower
       /\ upper["Load"] = heap[cfgRef].interval_consumed_upper
       /\ lower["Generator"] = "2.0" /\ upper["Generator"] = "5.0"
       /\ \A s \in Sources : running[s] /\ spawned[s] <= 1
       /\ run_sleep("Load") =>
            SampleWithin(slept'["Load"].lo, slept'["Load"].hi,
                         lower["Load"], upper["Load"])]_vars


\* ------------------------------------------ concurrent configuration posts
\* the threads that post configurations at the same time
Posters == {"req1", "req2"}

\* what each of them posts
PostedBounds ==
  [req1 |-> [interval_consumed_lower |-> "1.0"],
   req2 |-> [interval_consumed_lower |-> "3.0"]]

\* Two request threads call update() at any time, each running the
\* apply_config listener of its own call.
NextConverge ==
  \/ \E t \in Posters : update_call(t, PostedBounds[t])
  \/ \E t \in Posters : update(t)
  \/ \E t \in Posters : apply_config(t)
  \/ \E t \in Posters : startClient(t)
  \/ \E t \in Posters : stopClient(t)

SpecConverge == InitBounds /\ [][NextConverge]_vars

\* no update() and no listener call is in progress
Quiescent == \A t \in Posters : pc[t] = "idle"

\* the bounds of both sources are the stored values
BoundsAreStored ==
  /\ lower["Load"] = heap[cfgRef].interval_consumed_lower
  /\ upper["Load"] = heap[cfgRef].interval_consumed_upper
  /\ lower["Generator"] = heap[cfgRef].interval_generated_lower
  /\ upper["Generator"] = heap[cfgRef].interval_generated_upper

\* C20: once every update() issued and every apply_config call it triggered
\* has returned, the bounds of both sources are the stored values and the
\* configuration the bus client manager holds is the stored configuration
\* (SpecConverge).
C20_Converges == Quiescent => BoundsAreStored /\ heap[mqttCfg] = heap[cfgRef]


\* ------------------------------------------ the sleep between readings
\* the loop of source s generates its next reading
NextReading(s) == run_check(s) /\ produced'[s] > produced[s]

\* C21: between two consecutive readings of a source its loop has slept: when
\* the loop generates a reading after the first, the sampling and sleeping of
\* the iteration before ended in a completed sleep, whatever the bounds were
\* (lower above upper, negative, None) (SpecLoop).
C21_SleepsBetweenReadings ==
  [][\A s \in Sources :
       (NextReading(s) /\ produced[s] > 0) => slept[s].st = "slept"]_vars


\* ------------------------------------------ the configuration of the manager
\* the dict MqttManager.config refers to, as it reads now
ManagerConfig == heap[mqttCfg]

\* C22: while the handle stays the same client, the configuration the
\* manager holds reads as it did when the client was started; and what the
\* manager's configuration reads changes only by the assignment
\* `mqtt_mgr.config = new_cfg` of apply_config, never by a merge of
\* ConfigManager.update() (SpecSeq).
C22_ManagerConfigStable ==
  [][/\ (mqtt_client # NoClient /\ mqtt_client' = mqtt_client)
          => ManagerConfig' = ManagerConfig
     /\ ManagerConfig' # ManagerConfig
          => \E t \in Threads : apply_config_assign(t)]_vars

====
